---- MODULE Spec2Model ----
(***************************************************************************)
(* Model of src/rfid.py: the frame builder, the command/response exchange  *)
(* with retries and reconnection (RFIDReader.send_command), the tag and    *)
(* error frame parsers, and the two continuous-inventory loops             *)
(* (read_multiple_tags, stream_tags).                                      *)
(*                                                                         *)
(* Bytes are naturals in 0..255, byte strings are sequences of bytes       *)
(* (1-indexed here, 0-indexed in the source).  The serial port is the      *)
(* environment: every write and read draws its outcome (fault, empty,      *)
(* bytes) nondeterministically.                                            *)
(***************************************************************************)
EXTENDS Integers, Sequences, FiniteSets, TLC

\* ---------------------------------------------------------------- bounds
MaxSendRetries == 3     \* largest retries argument tried on a direct send_command call
MaxErrors == 3          \* largest max_retries argument tried on read_multiple_tags
MaxPolls == 3           \* poll iterations per session before the deadline / cancellation is forced
MaxSessions == 2        \* continuous-inventory sessions per reader instance
MaxPayloadLen == 2      \* longest payload enumerated byte by byte for FrameBuilder.build

\* ------------------------------------------------------ program constants
DefaultRetries == 3     \* send_command(cmd, retries=3)

\* ------------------------------------------------------------ byte helpers
Min(a, b) == IF a < b THEN a ELSE b

\* s[lo] + ... + s[hi], halving the range
RECURSIVE SumRange(_, _, _)
SumRange(s, lo, hi) ==
  IF lo > hi THEN 0
  ELSE IF lo = hi THEN s[lo]
  ELSE LET mid == (lo + hi) \div 2
       IN  SumRange(s, lo, mid) + SumRange(s, mid + 1, hi)

\* Python sum(bytes)
Sum(s) == SumRange(s, 1, Len(s))

\* Python s[a:b] for 0 <= a <= b (indices clamp to the length)
Slice(s, a, b) == SubSeq(s, Min(a, Len(s)) + 1, Min(b, Len(s)))

\* Python bytes.startswith(prefix)
startswith(s, prefix) == Slice(s, 0, Len(prefix)) = prefix

HexDigits == <<"0", "1", "2", "3", "4", "5", "6", "7",
               "8", "9", "A", "B", "C", "D", "E", "F">>

\* bytes.hex().upper(): two upper-case hex digits per byte
hex(s) ==
  [i \in 1..(2 * Len(s)) |->
      IF i % 2 = 1 THEN HexDigits[(s[(i + 1) \div 2] \div 16) + 1]
                   ELSE HexDigits[(s[i \div 2] % 16) + 1]]

\* ------------------------------------------------------------ FrameBuilder
\* the checksum taken over the start byte as well: sum(frame)
build_ChecksumFromStart(cmd_type, cmd_code, payload) ==
  LET length == Len(payload)
      hi     == length \div 256
      lo     == length % 256
      frame  == <<187, cmd_type, cmd_code, hi, lo>> \o payload
      checksum == Sum(frame) % 256
  IN  IF hi > 255 \/ cmd_type > 255 \/ cmd_code > 255
        THEN [kind |-> "ValueError"]
        ELSE [kind |-> "bytes", data |-> frame \o <<checksum, 126>>]

\* bytearray([...]) raises ValueError when an element is outside 0..255,
\* which is what happens to length >> 8 once len(payload) > 65535.
build(cmd_type, cmd_code, payload) ==
  LET length == Len(payload)
      hi     == length \div 256
      lo     == length % 256
      frame  == <<187, cmd_type, cmd_code, hi, lo>> \o payload
      checksum == Sum(Tail(frame)) % 256
  IN  IF hi > 255 \/ cmd_type > 255 \/ cmd_code > 255
        THEN [kind |-> "ValueError"]
        ELSE [kind |-> "bytes", data |-> frame \o <<checksum, 126>>]

\* ------------------------------------------------------------- the parsers
TagMarker == <<187, 2, 34>>       \* b'\xBB\x02\x22'
ErrorMarker == <<187, 1, 255>>    \* b'\xBB\x01\xFF'

\* frame[6] raises IndexError on a buffer shorter than 7 bytes; the slices
\* never raise, they just come back short.
parse_tag_frame(frame) ==
  IF Slice(frame, 0, 3) # TagMarker THEN [kind |-> "None"]
  ELSE IF Len(frame) < 7 THEN [kind |-> "IndexError"]
  ELSE [kind |-> "tag",
        EPC  |-> hex(Slice(frame, 9, 21)),
        RSSI |-> 0 - (256 - frame[7]),
        PC   |-> hex(Slice(frame, 7, 9)),
        CRC  |-> hex(Slice(frame, 21, 23))]

\* Returns nothing; reports frame[5] when the buffer carries the error marker.
parse_error_frame(frame) ==
  IF frame # <<>> /\ Slice(frame, 0, 3) = ErrorMarker
    THEN IF Len(frame) < 6 THEN [kind |-> "IndexError"]
                           ELSE [kind |-> "reported", code |-> frame[6]]
    ELSE [kind |-> "None"]

\* ------------------------------------------------- frames on the wire
SingleCmd == build(0, 34, <<>>).data              \* single_inventory
MultiCmd == build(0, 39, <<34, 3, 232>>).data     \* multi_inventory(count=1000)
StopCmd == build(0, 40, <<>>).data                \* stop_multi_inventory

EPC_A == <<226, 0, 17, 34, 51, 68, 85, 102, 119, 136, 153, 170>>
EPC_B == <<226, 0, 17, 34, 51, 68, 85, 102, 119, 136, 153, 187>>

\* A tag report laid out for the offsets parse_tag_frame reads:
\* frame[6] RSSI, frame[7:9] PC, frame[9:21] EPC, frame[21:23] CRC.
TagFrame(epc) == build(2, 34, <<0, 128, 17, 34>> \o epc \o <<171, 205>>).data
ErrorFrame == build(1, 255, <<21>>).data
AckFrame == build(1, 40, <<0>>).data              \* neither marker: noise

\* one byte of a frame replaced (line noise)
Corrupt(f, i, v) == [f EXCEPT ![i] = v]

\* A buffer is a well-formed frame: markers, declared length and checksum agree.
ValidFrame(f) ==
  /\ Len(f) >= 7
  /\ f[1] = 187
  /\ f[Len(f)] = 126
  /\ f[4] * 256 + f[5] = Len(f) - 7
  /\ f[Len(f) - 1] = Sum(SubSeq(f, 2, Len(f) - 2)) % 256

ValidTagFrame(f) == ValidFrame(f) /\ startswith(f, TagMarker) /\ Len(f) >= 23

\* what ser.read(64) can hand to a poll iteration
PollFrames ==
  { TagFrame(EPC_A), TagFrame(EPC_B), ErrorFrame, AckFrame, <<>>,
    Corrupt(TagFrame(EPC_A), 21, 187),                      \* EPC byte hit, checksum stale
    Corrupt(TagFrame(EPC_B), Len(TagFrame(EPC_B)), 0),      \* end marker lost
    TagMarker,                                              \* truncated after the marker
    Slice(TagFrame(EPC_A), 0, 15) }                         \* truncated inside the EPC

\* what ser.read(128) can hand to send_command after cmd was written
Responses(cmd) ==
  IF cmd = SingleCmd THEN { TagFrame(EPC_A), ErrorFrame } ELSE { AckFrame, ErrorFrame }

\* ------------------------------------------------------------------ state
VARIABLES
  pc,           \* "idle" | "send_command" | "single" | "starting" | "polling" | "exiting" | "stopping"
  mode,         \* "none" | "bounded" (read_multiple_tags) | "stream" (stream_tags)
  serOpen,      \* self.ser.is_open
  epc_seen,     \* self.epc_seen
  retries,      \* read_multiple_tags: local retries
  max_retries,  \* read_multiple_tags: argument max_retries
  sc,           \* the send_command call in progress or just returned
  pending,      \* exception in flight while stream_tags runs its finally block
  outcome,      \* how the last top-level call ended
  sess,         \* history of the current / last inventory session
  bld,          \* FrameBuilder.build applied to drawn arguments
  cfg,          \* self.rf_power (tenths of a dBm), self.region, self.channel
  args,         \* the configuration / memory command called last, and its data argument
  api           \* EPCs handed to send_to_api: by the poll loops since construction,
                \* and by the single_inventory call in progress or just ended

vars == <<pc, mode, serOpen, epc_seen, retries, max_retries, sc, pending, outcome, sess, bld, cfg, args, api>>

\* ----------------------------------------------------------- send_command
\* One call: attempt is the loop variable, result what the call came to
\* ("pending" while the loop runs).  The other fields count what happened:
\* ser.write calls, SerialExceptions caught, the attempt (1-based) of the last
\* one, reconnect_serial calls and whether the last one reopened the port,
\* and what the last attempt met.
NewCall(cmd, r) ==
  [cmd |-> cmd, r |-> r, attempt |-> 0,
   writes |-> 0, faults |-> 0, faultAt |-> 0, reconnects |-> 0, reopened |-> FALSE,
   last |-> [kind |-> "none", data |-> <<>>],
   result |-> IF r <= 0 THEN "None" ELSE "pending", response |-> <<>>]

\* no call in progress or just returned
NoCall == [NewCall(<<>>, 0) EXCEPT !.result = "none"]

\* What one write + read can meet: the write raises, the read raises, the read
\* times out empty, or bytes arrive.  A closed port raises on write.
Outcomes(open, cmd) ==
  IF open
    THEN {[kind |-> k, data |-> <<>>] : k \in {"wfault", "rfault", "empty"}}
         \cup {[kind |-> "resp", data |-> d] : d \in Responses(cmd)}
    ELSE {[kind |-> "wfault", data |-> <<>>]}

IsFault(k) == k \in {"wfault", "rfault"}

\* reconnect_serial: close if open, reopen; a failure to reopen is logged and
\* swallowed, leaving self.ser the closed handle.  Returns is_open afterwards.
reconnect_serial(reopen) == reopen

\* send_command giving up one attempt early: range(retries - 1)
Attempt_EarlyGiveUp(s, out, reopen) ==
  LET s1 == [s EXCEPT !.writes = @ + 1, !.last = out]
  IN  IF out.kind = "resp"
        THEN [s1 EXCEPT !.result = "response", !.response = out.data]
      ELSE IF out.kind = "empty"
        THEN [s1 EXCEPT !.attempt = @ + 1,
                        !.result = IF s.attempt + 1 >= s.r - 1 THEN "None" ELSE "pending"]
      ELSE IF s.attempt < s.r - 1
        THEN [s1 EXCEPT !.attempt = @ + 1,
                        !.faults = @ + 1, !.faultAt = s.attempt + 1,
                        !.reconnects = @ + 1, !.reopened = reopen]
        ELSE [s1 EXCEPT !.faults = @ + 1, !.faultAt = s.attempt + 1,
                        !.result = "SerialException"]

\* send_command logging a response and retrying instead of returning it
Attempt_DropResponse(s, out, reopen) ==
  LET s1 == [s EXCEPT !.writes = @ + 1, !.last = out]
  IN  IF out.kind \in {"resp", "empty"}
        THEN [s1 EXCEPT !.attempt = @ + 1,
                        !.result = IF s.attempt + 1 >= s.r THEN "None" ELSE "pending"]
      ELSE IF s.attempt < s.r - 1
        THEN [s1 EXCEPT !.attempt = @ + 1,
                        !.faults = @ + 1, !.faultAt = s.attempt + 1,
                        !.reconnects = @ + 1, !.reopened = reopen]
        ELSE [s1 EXCEPT !.faults = @ + 1, !.faultAt = s.attempt + 1,
                        !.result = "SerialException"]

\* send_command reconnecting after every fault: attempt < retries
Attempt_ReconnectOnLast(s, out, reopen) ==
  LET s1 == [s EXCEPT !.writes = @ + 1, !.last = out]
  IN  IF out.kind = "resp"
        THEN [s1 EXCEPT !.result = "response", !.response = out.data]
      ELSE IF out.kind = "empty"
        THEN [s1 EXCEPT !.attempt = @ + 1,
                        !.result = IF s.attempt + 1 >= s.r THEN "None" ELSE "pending"]
      ELSE [s1 EXCEPT !.attempt = @ + 1,
                      !.faults = @ + 1, !.faultAt = s.attempt + 1,
                      !.reconnects = @ + 1, !.reopened = reopen,
                      !.result = IF s.attempt + 1 >= s.r THEN "None" ELSE "pending"]

\* send_command going round the loop once more: range(retries + 1)
Attempt_ExtraAttempt(s, out, reopen) ==
  LET s1 == [s EXCEPT !.writes = @ + 1, !.last = out]
  IN  IF out.kind = "resp"
        THEN [s1 EXCEPT !.result = "response", !.response = out.data]
      ELSE IF out.kind = "empty"
        THEN [s1 EXCEPT !.attempt = @ + 1,
                        !.result = IF s.attempt + 1 >= s.r + 1 THEN "None" ELSE "pending"]
      ELSE IF s.attempt < s.r
        THEN [s1 EXCEPT !.attempt = @ + 1,
                        !.faults = @ + 1, !.faultAt = s.attempt + 1,
                        !.reconnects = @ + 1, !.reopened = reopen]
        ELSE [s1 EXCEPT !.faults = @ + 1, !.faultAt = s.attempt + 1,
                        !.result = "SerialException"]

\* One iteration of the for loop of send_command.
Attempt(s, out, reopen) ==
  LET s1 == [s EXCEPT !.writes = @ + 1, !.last = out]
  IN  IF out.kind = "resp"
        THEN [s1 EXCEPT !.result = "response", !.response = out.data]
      ELSE IF out.kind = "empty"
        THEN [s1 EXCEPT !.attempt = @ + 1,
                        !.result = IF s.attempt + 1 >= s.r THEN "None" ELSE "pending"]
      ELSE IF s.attempt < s.r - 1
        THEN [s1 EXCEPT !.attempt = @ + 1,
                        !.faults = @ + 1, !.faultAt = s.attempt + 1,
                        !.reconnects = @ + 1, !.reopened = reconnect_serial(reopen)]
        ELSE [s1 EXCEPT !.faults = @ + 1, !.faultAt = s.attempt + 1,
                        !.result = "SerialException"]

\* self.ser.is_open after that iteration
OpenAfter(s, out, reopen, open) ==
  IF IsFault(out.kind) /\ s.attempt < s.r - 1 THEN reconnect_serial(reopen) ELSE open

\* -------------------------------------------------------- session history
NewSession(no, seen) ==
  [no |-> no,                 \* sessions started on this reader so far
   polls |-> 0,               \* poll iterations made
   startSeen |-> seen,        \* epc_seen when the session started
   tags |-> {},               \* EPCs of well-formed tag frames read by this session
   tagReads |-> 0,            \* well-formed tag frames read by this session
   clean |-> TRUE,            \* every tag-marked buffer read so far was a well-formed tag frame
   emitted |-> <<>>,          \* EPCs handed to log_tag / send_to_api, in order
   errRun |-> 0,              \* complete error frames read since the last tag-marked buffer
   errReads |-> 0,            \* complete error frames read by this session
   lastEmit |-> "none",       \* the last iteration emitted from a "valid" / "invalid" frame
   lastTrunc |-> FALSE,       \* the last iteration read a tag-marked buffer cut short of 23 bytes
   pollFaults |-> 0,          \* SerialExceptions raised by ser.read(64) in the poll loop
   pollReconnects |-> 0,      \* reconnect_serial calls made from the poll loop
   begun |-> FALSE,           \* ser.write was called with the begin command
   stopCalls |-> 0,           \* stop_multi_inventory calls
   stopWrites |-> 0,          \* ser.write calls carrying the stop command
   exit |-> "none"]           \* what ended polling

\* cfg.get('rf_power', 20.0), cfg.get('region', 'China2'), cfg.get('channel', 0)
DefaultConfig == [rf_power |-> 200, region |-> "China2", channel |-> 0]

NoArgs == [op |-> "none", data |-> <<>>]

\* nothing has been handed to send_to_api
NoApi == [inventory |-> {}, single |-> <<>>]

NoBuild == [cmd_type |-> 0, cmd_code |-> 0, payload |-> <<>>, out |-> [kind |-> "none"]]

Init ==
  /\ pc = "idle"
  /\ mode = "none"
  /\ serOpen = TRUE
  /\ epc_seen = {}
  /\ retries = 0
  /\ max_retries = DefaultRetries
  /\ sc = NoCall
  /\ pending = "none"
  /\ outcome = "none"
  /\ sess = NewSession(0, {})
  /\ bld = NoBuild
  /\ cfg = DefaultConfig
  /\ args = NoArgs
  /\ api = NoApi

\* ------------------------------------------------- send_command, called directly
CallSendCommand ==
  /\ pc = "idle"
  /\ \E r \in 0..MaxSendRetries, cmd \in {SingleCmd, MultiCmd, StopCmd} :
       /\ sc' = NewCall(cmd, r)
       /\ pc' = IF r <= 0 THEN "idle" ELSE "send_command"
       /\ outcome' = IF r <= 0 THEN "returned" ELSE "none"
  /\ UNCHANGED <<mode, serOpen, epc_seen, retries, max_retries, pending, sess, bld, cfg, args, api>>

SendCommandStep ==
  /\ pc = "send_command"
  /\ sc.result = "pending"
  /\ \E out \in Outcomes(serOpen, sc.cmd), reopen \in BOOLEAN :
       LET s2 == Attempt(sc, out, reopen) IN
       /\ sc' = s2
       /\ serOpen' = OpenAfter(sc, out, reopen, serOpen)
       /\ pc' = IF s2.result = "pending" THEN "send_command" ELSE "idle"
       /\ outcome' = CASE s2.result = "pending" -> "none"
                       [] s2.result = "SerialException" -> "SerialException"
                       [] OTHER -> "returned"
  /\ UNCHANGED <<mode, epc_seen, retries, max_retries, pending, sess, bld, cfg, args, api>>

\* ------------------------------------------------------- starting a session
\* read_multiple_tags(max_retries = m): multi_inventory() is the first statement
CallReadMultipleTags ==
  /\ pc = "idle"
  /\ sess.no < MaxSessions
  /\ \E m \in 1..MaxErrors : max_retries' = m
  /\ mode' = "bounded"
  /\ pc' = "starting"
  /\ sc' = NewCall(MultiCmd, DefaultRetries)
  /\ retries' = 0
  /\ pending' = "none"
  /\ outcome' = "none"
  /\ sess' = NewSession(sess.no + 1, epc_seen)
  /\ api' = [api EXCEPT !.single = <<>>]
  /\ UNCHANGED <<serOpen, epc_seen, bld, cfg, args>>

\* stream_tags(): multi_inventory() is the first statement of the outer try
CallStreamTags ==
  /\ pc = "idle"
  /\ sess.no < MaxSessions
  /\ mode' = "stream"
  /\ pc' = "starting"
  /\ sc' = NewCall(MultiCmd, DefaultRetries)
  /\ retries' = 0
  /\ max_retries' = DefaultRetries
  /\ pending' = "none"
  /\ outcome' = "none"
  /\ sess' = NewSession(sess.no + 1, epc_seen)
  /\ api' = [api EXCEPT !.single = <<>>]
  /\ UNCHANGED <<serOpen, epc_seen, bld, cfg, args>>

\* multi_inventory: one iteration of its send_command.  A response or None
\* both fall through to the poll loop; a SerialException on the last attempt
\* leaves read_multiple_tags at once, and takes stream_tags to its finally.
MultiInventoryStep ==
  /\ pc = "starting"
  /\ sc.result = "pending"
  /\ \E out \in Outcomes(serOpen, sc.cmd), reopen \in BOOLEAN :
       LET s2 == Attempt(sc, out, reopen)
           raised == s2.result = "SerialException"
       IN
       /\ sc' = s2
       /\ serOpen' = OpenAfter(sc, out, reopen, serOpen)
       /\ pc' = CASE s2.result = "pending" -> "starting"
                  [] raised /\ mode = "bounded" -> "idle"
                  [] raised /\ mode = "stream" -> "exiting"
                  [] OTHER -> "polling"
       /\ pending' = IF raised /\ mode = "stream" THEN "SerialException" ELSE pending
       /\ outcome' = IF raised /\ mode = "bounded" THEN "SerialException" ELSE outcome
       /\ sess' = [sess EXCEPT !.begun = TRUE,
                               !.exit = IF raised THEN "startfault" ELSE @]
  /\ UNCHANGED <<mode, epc_seen, retries, max_retries, bld, cfg, args, api>>

\* ------------------------------------------------------- one poll iteration
\* the tag branch emitting without consulting epc_seen
TagBranch_NoDedup(frame, seen) ==
  LET tag == parse_tag_frame(frame) IN
  IF tag.kind = "IndexError"
    THEN [raised |-> TRUE, seen |-> seen, emit |-> <<>>]
    ELSE [raised |-> FALSE, seen |-> seen \cup {tag.EPC}, emit |-> <<tag.EPC>>]

\* the tag branch emitting a new EPC without adding it to epc_seen
TagBranch_NoAdd(frame, seen) ==
  LET tag == parse_tag_frame(frame) IN
  IF tag.kind = "IndexError"
    THEN [raised |-> TRUE, seen |-> seen, emit |-> <<>>]
  ELSE IF tag.EPC \notin seen
    THEN [raised |-> FALSE, seen |-> seen, emit |-> <<tag.EPC>>]
    ELSE [raised |-> FALSE, seen |-> seen, emit |-> <<>>]

\* The tag branch shared by both loops: parse, then add and emit when the EPC
\* is not in epc_seen.  An IndexError from parse_tag_frame leaves the branch.
TagBranch(frame, seen) ==
  LET tag == parse_tag_frame(frame) IN
  IF tag.kind = "IndexError"
    THEN [raised |-> TRUE, seen |-> seen, emit |-> <<>>]
  ELSE IF tag.EPC \notin seen
    THEN [raised |-> FALSE, seen |-> seen \cup {tag.EPC}, emit |-> <<tag.EPC>>]
    ELSE [raised |-> FALSE, seen |-> seen, emit |-> <<>>]

\* the threshold test missing the boundary: retries > max_retries
ErrorLimitReached_Late(n, max) == n > max

\* if retries >= max_retries: break
ErrorLimitReached(n, max) == n >= max

\* the counter left as it was after a tag frame
RetriesAfterTag_Keep(n) == n

\* retries = 0  # reset on success
RetriesAfterTag(n) == 0

\* the history of a session after reading one buffer
Observe(h, frame, emit) ==
  [h EXCEPT !.polls = @ + 1,
            !.lastTrunc = (startswith(frame, TagMarker) /\ Len(frame) < 23),
            !.lastEmit = IF emit = <<>> THEN "none"
                         ELSE IF ValidFrame(frame) THEN "valid" ELSE "invalid",
            !.emitted = @ \o emit,
            !.tagReads = IF ValidTagFrame(frame) THEN @ + 1 ELSE @,
            !.tags = IF ValidTagFrame(frame) THEN @ \cup {hex(SubSeq(frame, 10, 21))} ELSE @,
            !.clean = @ /\ (startswith(frame, TagMarker) => ValidTagFrame(frame)),
            !.errReads = IF parse_error_frame(frame).kind = "reported" THEN @ + 1 ELSE @,
            !.errRun = IF startswith(frame, TagMarker) THEN 0
                       ELSE IF parse_error_frame(frame).kind = "reported" THEN @ + 1 ELSE @]

\* the EPCs handed to log_tag / send_to_api by the iteration from h to h2
Emitted(h, h2) == {h2.emitted[i] : i \in (Len(h.emitted) + 1)..Len(h2.emitted)}

\* read_multiple_tags: the loop condition holds and the body runs once.
\* Nothing in the loop catches an exception.
ReadMultipleTagsPoll ==
  /\ pc = "polling"
  /\ mode = "bounded"
  /\ sess.polls < MaxPolls
  /\ \/ \* self.ser.read(64) raises SerialException
        /\ pc' = "idle"
        /\ outcome' = "SerialException"
        /\ sess' = [sess EXCEPT !.polls = @ + 1, !.exit = "fault", !.lastEmit = "none",
                                !.lastTrunc = FALSE, !.pollFaults = @ + 1]
        /\ UNCHANGED <<epc_seen, retries>>
     \/ \E frame \in PollFrames :
          IF startswith(frame, TagMarker) THEN
            LET b == TagBranch(frame, epc_seen) IN
            /\ epc_seen' = b.seen
            /\ retries' = IF b.raised THEN retries ELSE RetriesAfterTag(retries)
            /\ pc' = IF b.raised THEN "idle" ELSE "polling"
            /\ outcome' = IF b.raised THEN "IndexError" ELSE outcome
            /\ sess' = [Observe(sess, frame, b.emit) EXCEPT
                          !.exit = IF b.raised THEN "exception" ELSE @]
          ELSE IF startswith(frame, ErrorMarker) THEN
            LET e == parse_error_frame(frame)
                raised == e.kind = "IndexError"
                stop == ~raised /\ ErrorLimitReached(retries + 1, max_retries)
            IN
            /\ retries' = IF raised THEN retries ELSE retries + 1
            /\ pc' = IF raised THEN "idle" ELSE IF stop THEN "exiting" ELSE "polling"
            /\ outcome' = IF raised THEN "IndexError" ELSE outcome
            /\ sess' = [Observe(sess, frame, <<>>) EXCEPT
                          !.exit = IF raised THEN "exception"
                                   ELSE IF stop THEN "errors" ELSE @]
            /\ UNCHANGED epc_seen
          ELSE
            /\ sess' = Observe(sess, frame, <<>>)
            /\ UNCHANGED <<pc, outcome, epc_seen, retries>>
  /\ sc' = NoCall
  /\ api' = [api EXCEPT !.inventory = @ \cup Emitted(sess, sess')]
  /\ UNCHANGED <<mode, serOpen, max_retries, pending, bld, cfg, args>>

\* read_multiple_tags: time.time() - start < duration is false
ReadMultipleTagsDeadline ==
  /\ pc = "polling"
  /\ mode = "bounded"
  /\ pc' = "exiting"
  /\ sess' = [sess EXCEPT !.exit = "deadline"]
  /\ sc' = NoCall
  /\ UNCHANGED <<mode, serOpen, epc_seen, retries, max_retries, pending, outcome, bld, cfg, args, api>>

\* stream_tags: one pass of the while True body.  SerialException is caught
\* and followed by reconnect_serial, any other Exception is caught and logged;
\* both continue the loop.
StreamTagsPoll ==
  /\ pc = "polling"
  /\ mode = "stream"
  /\ sess.polls < MaxPolls
  /\ \/ \* self.ser.read(64) raises SerialException (always, on a closed port)
        \E reopen \in BOOLEAN :
          /\ serOpen' = reconnect_serial(reopen)
          /\ sess' = [sess EXCEPT !.polls = @ + 1, !.lastEmit = "none", !.lastTrunc = FALSE,
                                  !.pollFaults = @ + 1, !.pollReconnects = @ + 1]
          /\ UNCHANGED epc_seen
     \/ /\ serOpen
        /\ \E frame \in PollFrames :
             LET b == IF startswith(frame, TagMarker)
                        THEN TagBranch(frame, epc_seen)
                        ELSE [raised |-> FALSE, seen |-> epc_seen, emit |-> <<>>]
             IN
             /\ epc_seen' = b.seen
             /\ sess' = Observe(sess, frame, b.emit)
        /\ UNCHANGED serOpen
  /\ sc' = NoCall
  /\ api' = [api EXCEPT !.inventory = @ \cup Emitted(sess, sess')]
  /\ UNCHANGED <<pc, mode, retries, max_retries, pending, outcome, bld, cfg, args>>

\* the KeyboardInterrupt caught inside the loop, which then goes on polling
StreamTagsCancel_Swallowed ==
  /\ mode = "stream"
  /\ pc \in {"starting", "polling", "stopping"}
  /\ pc' = IF pc = "stopping" THEN "idle" ELSE "polling"
  /\ outcome' = IF pc = "stopping"
                  THEN (IF pending = "none" THEN "returned" ELSE pending)
                  ELSE outcome
  /\ sess' = [sess EXCEPT !.exit = IF pc = "stopping" THEN @ ELSE "cancel"]
  /\ sc' = NoCall
  /\ UNCHANGED <<mode, serOpen, epc_seen, retries, max_retries, pending, bld, cfg, args, api>>

\* KeyboardInterrupt delivered to stream_tags: caught by the outer try while
\* starting or polling; swallowed by the bare except while the stop command
\* is being sent.
StreamTagsCancel ==
  /\ mode = "stream"
  /\ pc \in {"starting", "polling", "stopping"}
  /\ pc' = IF pc = "stopping" THEN "idle" ELSE "exiting"
  /\ outcome' = IF pc = "stopping"
                  THEN (IF pending = "none" THEN "returned" ELSE pending)
                  ELSE outcome
  /\ sess' = [sess EXCEPT !.exit = IF pc = "stopping" THEN @ ELSE "cancel"]
  /\ sc' = NoCall
  /\ UNCHANGED <<mode, serOpen, epc_seen, retries, max_retries, pending, bld, cfg, args, api>>

\* KeyboardInterrupt delivered to read_multiple_tags: nothing catches it
ReadMultipleTagsCancel ==
  /\ mode = "bounded"
  /\ pc \in {"starting", "polling", "exiting", "stopping"}
  /\ pc' = "idle"
  /\ outcome' = "KeyboardInterrupt"
  /\ sess' = [sess EXCEPT !.exit = IF pc \in {"starting", "polling"} THEN "cancel" ELSE @]
  /\ sc' = NoCall
  /\ UNCHANGED <<mode, serOpen, epc_seen, retries, max_retries, pending, bld, cfg, args, api>>

\* ------------------------------------------------------- stopping a session
\* stop_multi_inventory() is called: after the while loop of
\* read_multiple_tags, in the finally block of stream_tags.
CallStopMultiInventory ==
  /\ pc = "exiting"
  /\ pc' = "stopping"
  /\ sc' = NewCall(StopCmd, DefaultRetries)
  /\ sess' = [sess EXCEPT !.stopCalls = @ + 1]
  /\ UNCHANGED <<mode, serOpen, epc_seen, retries, max_retries, pending, outcome, bld, cfg, args, api>>

\* one iteration of the send_command of stop_multi_inventory.  A
\* SerialException leaves read_multiple_tags; stream_tags swallows it and
\* then re-raises what was in flight when the finally block was entered.
StopMultiInventoryStep ==
  /\ pc = "stopping"
  /\ sc.result = "pending"
  /\ \E out \in Outcomes(serOpen, sc.cmd), reopen \in BOOLEAN :
       LET s2 == Attempt(sc, out, reopen) IN
       /\ sc' = s2
       /\ serOpen' = OpenAfter(sc, out, reopen, serOpen)
       /\ pc' = IF s2.result = "pending" THEN "stopping" ELSE "idle"
       /\ outcome' = CASE s2.result = "pending" -> outcome
                       [] mode = "bounded" /\ s2.result = "SerialException" -> "SerialException"
                       [] mode = "stream" /\ pending # "none" -> pending
                       [] OTHER -> "returned"
  /\ sess' = [sess EXCEPT !.stopWrites = @ + 1]
  /\ UNCHANGED <<mode, epc_seen, retries, max_retries, pending, bld, cfg, args, api>>

\* ------------------------------------------------------- single_inventory
\* single_inventory() is called between sessions: the command is built and
\* handed to send_command.  The locals of the session that ended are gone.
CallSingleInventory ==
  /\ pc = "idle"
  /\ pc' = "single"
  /\ sc' = NewCall(SingleCmd, DefaultRetries)
  /\ mode' = "none"
  /\ retries' = 0
  /\ max_retries' = DefaultRetries
  /\ pending' = "none"
  /\ outcome' = "none"
  /\ sess' = NewSession(sess.no, epc_seen)
  /\ api' = [api EXCEPT !.single = <<>>]
  /\ UNCHANGED <<serOpen, epc_seen, bld, cfg, args>>

\* one iteration of the send_command of single_inventory; a response is
\* parsed and, when parse_tag_frame returns a tag, handed to send_to_api.
\* self.epc_seen is neither read nor written.
SingleInventoryStep ==
  /\ pc = "single"
  /\ sc.result = "pending"
  /\ \E out \in Outcomes(serOpen, sc.cmd), reopen \in BOOLEAN :
       LET s2 == Attempt(sc, out, reopen)
           tag == IF s2.result = "response" THEN parse_tag_frame(s2.response)
                                            ELSE [kind |-> "None"]
       IN
       /\ sc' = s2
       /\ serOpen' = OpenAfter(sc, out, reopen, serOpen)
       /\ pc' = IF s2.result = "pending" THEN "single" ELSE "idle"
       /\ outcome' = CASE s2.result = "pending" -> "none"
                       [] s2.result = "SerialException" -> "SerialException"
                       [] tag.kind = "IndexError" -> "IndexError"
                       [] OTHER -> "returned"
       /\ api' = [api EXCEPT !.single = IF tag.kind = "tag" THEN <<tag.EPC>> ELSE <<>>]
  /\ UNCHANGED <<mode, epc_seen, retries, max_retries, pending, sess, bld, cfg, args>>

\* ------------------------------------ configuration and memory commands
\* set_rf_power: power_map, keyed by the level in tenths of a dBm
power_map ==
  (185 :> <<4, 226>>) @@ (200 :> <<5, 120>>) @@ (215 :> <<6, 14>>) @@
  (230 :> <<6, 164>>) @@ (245 :> <<7, 58>>) @@ (260 :> <<7, 208>>)

\* set_region: region_map
region_map ==
  ("China2" :> <<1, 9>>) @@ ("China1" :> <<4, 12>>) @@ ("US" :> <<2, 10>>) @@
  ("Europe" :> <<3, 11>>) @@ ("Korea" :> <<6, 14>>)

\* dict.get(key): None, which "if not payload" takes like an empty list, is <<>>
get(map, key) == IF key \in DOMAIN map THEN map[key] ELSE <<>>

\* int.to_bytes(2, 'big') for 0 <= n <= 65535
to_bytes2(n) == <<n \div 256, n % 256>>

\* write_tag_memory building its frame without looking at len(data) % 2;
\* count.to_bytes raises OverflowError past 65535 words.
write_tag_memory_frame(bank, offset, data, password) ==
  LET count == Len(data) \div 2 IN
  IF count > 65535 \/ offset > 65535
    THEN [kind |-> "OverflowError"]
    ELSE build(0, 73, <<bank>> \o password \o to_bytes2(offset) \o to_bytes2(count) \o data)

\* a command either raises before send_command is reached or enters it
StartCommand(op, data, raised, built) ==
  /\ args' = [op |-> op, data |-> data]
  /\ IF raised # "none" \/ built.kind # "bytes"
       THEN /\ sc' = NoCall
            /\ pc' = "idle"
            /\ outcome' = IF raised # "none" THEN raised ELSE built.kind
       ELSE /\ sc' = NewCall(built.data, DefaultRetries)
            /\ pc' = "command"
            /\ outcome' = "none"
  /\ UNCHANGED <<mode, serOpen, epc_seen, retries, max_retries, pending, sess, bld, cfg, api>>

CallSetRfPower ==
  /\ pc = "idle"
  /\ LET payload == get(power_map, cfg.rf_power) IN
     StartCommand("set_rf_power", <<>>,
               IF payload = <<>> THEN "ValueError" ELSE "none",
               build(0, 182, payload))

CallSetRegion ==
  /\ pc = "idle"
  /\ LET payload == get(region_map, cfg.region) IN
     StartCommand("set_region", <<>>,
               IF payload = <<>> THEN "ValueError" ELSE "none",
               build(0, 7, payload))

CallSetChannel ==
  /\ pc = "idle"
  /\ StartCommand("set_channel", <<>>,
               IF ~(0 <= cfg.channel /\ cfg.channel <= 51) THEN "ValueError" ELSE "none",
               IF 0 <= cfg.channel /\ cfg.channel <= 255
                 THEN build(0, 171, <<cfg.channel>>) ELSE [kind |-> "ValueError"])

\* data arguments tried on write_tag_memory; the long one makes the payload
\* 9 + 65528 = 65537 bytes
WriteData == { <<>>, <<1>>, <<1, 2>>, <<1, 2, 3>>, [i \in 1..65528 |-> 0] }

CallWriteTagMemory ==
  /\ pc = "idle"
  /\ \E data \in WriteData, offset \in {0, 2} :
    StartCommand("write_tag_memory", data, "none",
                 write_tag_memory_frame(1, offset, data, <<0, 0, 0, 0>>))

\* one iteration of the send_command of the command; the response is only
\* logged or handed to parse_error_frame
CommandStep ==
  /\ pc = "command"
  /\ sc.result = "pending"
  /\ \E out \in Outcomes(serOpen, sc.cmd), reopen \in BOOLEAN :
       LET s2 == Attempt(sc, out, reopen) IN
       /\ sc' = s2
       /\ serOpen' = OpenAfter(sc, out, reopen, serOpen)
       /\ pc' = IF s2.result = "pending" THEN "command" ELSE "idle"
       /\ outcome' = CASE s2.result = "pending" -> "none"
                       [] s2.result = "SerialException" -> "SerialException"
                       [] OTHER -> "returned"
  /\ UNCHANGED <<mode, epc_seen, retries, max_retries, pending, sess, bld, cfg, args, api>>

\* configurations a config.json can hold
Configs ==
  [rf_power : {200, 190}, region : {"US", "Mars"}, channel : {0, 51, 52, -1}]

InitCmd ==
  /\ pc = "idle"
  /\ mode = "none"
  /\ serOpen = TRUE
  /\ epc_seen = {}
  /\ retries = 0
  /\ max_retries = DefaultRetries
  /\ sc = NoCall
  /\ pending = "none"
  /\ outcome = "none"
  /\ sess = NewSession(0, {})
  /\ bld = NoBuild
  /\ cfg \in Configs
  /\ args = NoArgs
  /\ api = NoApi

\* a reader being configured and written through
NextCmd ==
  \/ CallSetRfPower
  \/ CallSetRegion
  \/ CallSetChannel
  \/ CallWriteTagMemory
  \/ CommandStep

SpecCmd == InitCmd /\ [][NextCmd]_vars

\* ----------------------------------------------- FrameBuilder.build alone
BuildTypes == {0, 1, 2, 255}
BuildCodes == {0, 34, 39, 255}
BuildBytes == {0, 1, 255}

\* every payload over BuildBytes up to MaxPayloadLen, and three long ones
\* around the point where the length needs its high byte
BuildPayloads ==
  UNION {[1..n -> BuildBytes] : n \in 0..MaxPayloadLen}
    \cup {[i \in 1..n |-> 255] : n \in {255, 256, 300}}

InitBuild ==
  /\ pc = "idle"
  /\ mode = "none"
  /\ serOpen = TRUE
  /\ epc_seen = {}
  /\ retries = 0
  /\ max_retries = DefaultRetries
  /\ sc = NoCall
  /\ pending = "none"
  /\ outcome = "none"
  /\ sess = NewSession(0, {})
  /\ cfg = DefaultConfig
  /\ args = NoArgs
  /\ api = NoApi
  /\ \E t \in BuildTypes, c \in BuildCodes, p \in BuildPayloads :
       bld = [cmd_type |-> t, cmd_code |-> c, payload |-> p, out |-> [kind |-> "none"]]

\* FrameBuilder.build(cmd_type, cmd_code, payload) is called
BuildStep ==
  /\ bld.out.kind = "none"
  /\ bld' = [bld EXCEPT !.out = build(bld.cmd_type, bld.cmd_code, bld.payload)]
  /\ UNCHANGED <<pc, mode, serOpen, epc_seen, retries, max_retries, sc, pending, outcome, sess, cfg, args, api>>

NextBuild == BuildStep

SpecBuild == InitBuild /\ [][NextBuild]_vars

\* a reader driving inventory sessions
Next ==
  \/ CallReadMultipleTags
  \/ CallStreamTags
  \/ MultiInventoryStep
  \/ ReadMultipleTagsPoll
  \/ ReadMultipleTagsDeadline
  \/ StreamTagsPoll
  \/ StreamTagsCancel
  \/ ReadMultipleTagsCancel
  \/ CallStopMultiInventory
  \/ StopMultiInventoryStep

Spec == Init /\ [][Next]_vars

\* a reader driving inventory sessions with single inventories between them
NextLife ==
  \/ Next
  \/ CallSingleInventory
  \/ SingleInventoryStep

SpecLife == Init /\ [][NextLife]_vars

\* a reader driving streaming sessions.  Once stream_tags has left its loop
\* nothing waits on the outside: the finally block is entered, and each
\* iteration of the stop command's send_command ends after its bounded
\* sleeps and its read timeout.
NextStream ==
  \/ CallStreamTags
  \/ MultiInventoryStep
  \/ StreamTagsPoll
  \/ StreamTagsCancel
  \/ CallStopMultiInventory
  \/ StopMultiInventoryStep

SpecStream ==
  /\ Init /\ [][NextStream]_vars
  /\ WF_vars(CallStopMultiInventory)
  /\ WF_vars(StopMultiInventoryStep)

\* a reader whose caller uses send_command alone
NextSend ==
  \/ CallSendCommand
  \/ SendCommandStep

SpecSend == Init /\ [][NextSend]_vars

\* ================================================================ claims
Returned(s) == s.result \in {"response", "None", "SerialException"}

\* C1: retry bound.  A send_command call with retries = r >= 1 that met no
\* transport fault and only empty reads has made exactly r writes, returned
\* None and raised nothing.
C1_RetryBound ==
  (Returned(sc) /\ sc.r >= 1 /\ sc.faults = 0 /\ sc.last.kind # "resp")
     => (sc.writes = sc.r /\ sc.result = "None")

C1_Witness ==
  /\ sc.result = "None" /\ sc.r = MaxSendRetries /\ sc.r >= 2
  /\ sc.faults = 0 /\ sc.writes = sc.r

\* C2: fault then recover.  When exactly one attempt k < r met a fault, the
\* reconnection after it reopened the port and attempt k + 1 read bytes, the
\* call returns those bytes and reconnect_serial was called exactly once.
C2_FaultThenRecover ==
  (/\ sc.faults = 1 /\ sc.faultAt < sc.r /\ sc.reopened
   /\ sc.writes = sc.faultAt + 1 /\ sc.last.kind = "resp")
     => (sc.result = "response" /\ sc.response = sc.last.data /\ sc.reconnects = 1)

C2_Witness ==
  /\ sc.r = 3 /\ sc.faults = 1 /\ sc.faultAt = 2 /\ sc.reopened
  /\ sc.writes = 3 /\ sc.result = "response" /\ sc.response = TagFrame(EPC_A)
  /\ sc.reconnects = 1

\* C3: the final attempt's fault is fatal.  In every step in which an attempt
\* of send_command meets a transport fault: on attempt r the call ends with
\* the SerialException and reconnect_serial is not called; on an earlier
\* attempt reconnect_serial is called exactly once and the loop goes on to
\* the next attempt.
C3_FinalFaultFatal ==
  [][ (sc'.cmd = sc.cmd /\ sc'.writes = sc.writes + 1 /\ IsFault(sc'.last.kind))
        => IF sc.attempt = sc.r - 1
             THEN sc'.result = "SerialException" /\ sc'.reconnects = sc.reconnects
             ELSE /\ sc'.reconnects = sc.reconnects + 1
                  /\ sc'.result = "pending"
                  /\ sc'.attempt = sc.attempt + 1 ]_vars

C3_Witness ==
  /\ sc.r = 3 /\ sc.result = "SerialException"
  /\ sc.writes = 3 /\ sc.faults = 2 /\ sc.reconnects = 1

\* the EPCs emitted by the current session
EmittedSet == {sess.emitted[i] : i \in 1..Len(sess.emitted)}

\* C4: idempotent dedup within one session.  In a session (either loop) that
\* started with epc_seen empty and whose tag-marked buffers were all
\* well-formed tag frames, the emitted records are exactly the distinct EPCs
\* read, one record each, however often each frame was read.
C4_IdempotentDedup ==
  (sess.no >= 1 /\ sess.startSeen = {} /\ sess.clean)
     => (Len(sess.emitted) = Cardinality(sess.tags) /\ EmittedSet = sess.tags)

C4_Witness ==
  /\ sess.startSeen = {} /\ sess.clean
  /\ sess.tagReads = 3 /\ Cardinality(sess.tags) = 2 /\ Len(sess.emitted) = 2

\* C5: dedup is session-scoped.  In every session, the first as well as a
\* later one, each EPC read in a well-formed tag frame is emitted exactly once
\* by that session.
C5_SessionScopedDedup ==
  (sess.no >= 1 /\ sess.clean)
     => (Len(sess.emitted) = Cardinality(sess.tags) /\ EmittedSet = sess.tags)

C7_ErrorCounter ==
  /\ []((mode = "bounded" /\ pc = "polling") => retries <= max_retries)
  /\ [][(mode = "bounded" /\ sess'.tagReads = sess.tagReads + 1) => retries' = 0]_vars
  /\ [][(mode = "bounded" /\ retries' # retries /\ retries' >= max_retries)
           => (pc = "polling" /\ pc' = "exiting")]_vars

C7_Witness ==
  /\ mode = "bounded" /\ pc = "polling" /\ max_retries = 3
  /\ sess.polls = 3 /\ sess.errReads = 2 /\ sess.tagReads = 1 /\ Len(sess.emitted) = 0
  /\ sess.errRun = 0 /\ retries = 0

\* C8: stop on every exit.  Whenever a session that has written the begin
\* command is over and control is back with the caller, stop_multi_inventory
\* has been called.
C8_StopOnEveryExit ==
  (pc = "idle" /\ sess.begun) => sess.stopCalls >= 1

\* C9: checksum rejection.  A buffer carrying the tag marker that is not a
\* well-formed frame (stale checksum, wrong end marker) never produces an
\* emission.
C9_ChecksumRejection ==
  sess.lastEmit # "invalid"

\* C10: frame layout.  For cmd_type, cmd_code in 0..255 and a payload of at
\* most 65535 bytes, build returns 0xBB, cmd_type, cmd_code, the payload
\* length big-endian in two bytes, the payload, the checksum, 0x7E, with
\* checksum = (cmd_type + cmd_code + lengthHi + lengthLo + sum(payload)) mod 256
\* and len(payload) + 7 bytes in all.
C10_FrameLayout ==
  (bld.out.kind # "none" /\ Len(bld.payload) <= 65535)
     => LET n == Len(bld.payload)
            lengthHi == n \div 256
            lengthLo == n % 256
            checksum == (bld.cmd_type + bld.cmd_code + lengthHi + lengthLo
                           + Sum(bld.payload)) % 256
        IN  /\ bld.out.kind = "bytes"
            /\ bld.out.data = <<187, bld.cmd_type, bld.cmd_code, lengthHi, lengthLo>>
                                \o bld.payload \o <<checksum, 126>>
            /\ Len(bld.out.data) = n + 7

C10_Witness ==
  /\ bld.out.kind = "bytes" /\ bld.cmd_type = 255 /\ bld.cmd_code = 39
  /\ Len(bld.payload) = 300
  /\ bld.out.data[4] = 1 /\ bld.out.data[5] = 44 /\ bld.out.data[306] = 39

\* the arguments of the command called last are ones the protocol rejects
InvalidArgs ==
  \/ args.op = "set_rf_power" /\ cfg.rf_power \notin {185, 200, 215, 230, 245, 260}
  \/ args.op = "set_region" /\ cfg.region \notin {"China1", "China2", "US", "Europe", "Korea"}
  \/ args.op = "set_channel" /\ ~(0 <= cfg.channel /\ cfg.channel <= 51)
  \/ args.op = "write_tag_memory" /\ (Len(args.data) % 2 = 1 \/ 9 + Len(args.data) > 65535)

\* C11: protocol errors precede transmission.  A command called with invalid
\* arguments has failed with an error to its caller and ser.write was never
\* called for it.
C11_ProtocolErrorsFirst ==
  InvalidArgs => (/\ pc = "idle"
                  /\ outcome \in {"ValueError", "OverflowError"}
                  /\ sc.writes = 0)

\* C12: poll-path fault recovery.  In both loops, every step in which the
\* poll read raises a transport fault calls reconnect_serial, and when that
\* reopens the port the session is still polling with epc_seen as it was.
C12_PollFaultRecovery ==
  [][ (sess'.no = sess.no /\ sess'.pollFaults = sess.pollFaults + 1)
        => /\ sess'.pollReconnects = sess.pollReconnects + 1
           /\ (serOpen' => (pc' = "polling" /\ epc_seen' = epc_seen)) ]_vars

\* C13: reconnection failure ends the session.  No poll read is made on a
\* port that reconnect_serial failed to reopen: the step that fails to reopen
\* it takes the session out of polling, to the stop command.
C13_ReconnectFailureStops ==
  [][ (sess'.no = sess.no /\ sess'.pollReconnects = sess.pollReconnects + 1 /\ ~serOpen')
        => pc' = "exiting" ]_vars

\* C14: best-effort stop.  In both loops, a session that reached its stop
\* command (and was not already failing when it got there, nor interrupted
\* from outside) returns normally to its caller, whatever the stop command met.
C14_BestEffortStop ==
  (/\ pc = "idle" /\ sess.stopCalls >= 1
   /\ sess.exit # "startfault" /\ outcome # "KeyboardInterrupt")
     => outcome = "returned"

\* C15: truncated buffers are recoverable.  In both loops, a poll iteration
\* that reads a tag-marked buffer shorter than 23 bytes emits nothing, leaves
\* epc_seen as it was and leaves the session polling.
C15_TruncatedDiscarded ==
  [][ (sess'.no = sess.no /\ sess'.polls = sess.polls + 1 /\ sess'.lastTrunc)
        => /\ sess'.emitted = sess.emitted
           /\ epc_seen' = epc_seen
           /\ pc' = "polling" ]_vars

\* C16: unconditional start.  With no transport fault, the begin command of a
\* session is written once and nothing is read on its behalf: after its one
\* write the session polls.
C16_UnconditionalStart ==
  (mode # "none" /\ sc.cmd = MultiCmd /\ sc.faults = 0)
     => /\ sc.writes <= 1
        /\ sc.last.kind \notin {"empty", "resp"}
        /\ (sc.writes = 1 => pc = "polling")

\* C17: one error rule for both loops.  A streaming session that has read
\* max-errors consecutive error frames is no longer polling.
C17_StreamErrorThreshold ==
  (mode = "stream" /\ sess.errRun >= DefaultRetries) => pc # "polling"

\* the effort of a send_command call never exceeds its bound, and once bytes
\* have been read the call writes and reconnects no more
EffortBounded ==
  /\ sc.writes <= sc.r
  /\ sc.reconnects <= (IF sc.r >= 1 THEN sc.r - 1 ELSE 0)
  /\ (sc.last.kind = "resp" => sc.result = "response")

NothingAfterResponse ==
  sc.last.kind = "resp" => (sc'.writes <= sc.writes /\ sc'.reconnects <= sc.reconnects)

\* C19 as stated: bound on send_command effort.  Every call with retries = r
\* makes at most r writes and at most max(r - 1, 0) reconnections, none of
\* them after a non-empty response, and a call in which every write faulted
\* ends by raising after exactly r writes and r - 1 reconnections.
C19_EffortBoundAnyR ==
  /\ [] EffortBounded
  /\ [][NothingAfterResponse]_vars
  /\ [] ((Returned(sc) /\ sc.faults = sc.writes)
          => /\ sc.result = "SerialException"
             /\ sc.writes = sc.r
             /\ sc.reconnects = sc.r - 1)

\* C19, amended: the same bound, the last part for r >= 1 only.  A call with
\* retries = r >= 1 in which every write faulted ends by raising after exactly
\* r writes and r - 1 reconnections; a call with r = 0 returns None after no
\* write and no reconnection.
C19_EffortBound ==
  /\ [] EffortBounded
  /\ [][NothingAfterResponse]_vars
  /\ [] ((Returned(sc) /\ sc.faults = sc.writes)
          => IF sc.r >= 1
               THEN /\ sc.result = "SerialException"
                    /\ sc.writes = sc.r
                    /\ sc.reconnects = sc.r - 1
               ELSE /\ sc.result = "None"
                    /\ sc.writes = 0
                    /\ sc.reconnects = 0)

C19_Witness ==
  /\ sc.r = 3 /\ sc.result = "SerialException" /\ ~serOpen /\ ~sc.reopened
  /\ sc.last.kind = "wfault"
  /\ sc.writes = 3 /\ sc.faults = 3 /\ sc.reconnects = 2

\* a streaming session whose KeyboardInterrupt has been taken
Cancelled == mode = "stream" /\ sess.exit = "cancel"

\* C18: cancellation.  Once a streaming session has taken a cancellation,
\* whether it was starting or polling, it polls no more and emits nothing
\* more, it calls stop_multi_inventory once, and it returns normally.
C18_Cancellation ==
  /\ [] (Cancelled => /\ pc \in {"exiting", "stopping", "idle"}
                      /\ sess.stopCalls = (IF pc = "exiting" THEN 0 ELSE 1)
                      /\ (pc = "idle" => outcome = "returned"))
  /\ [][ (Cancelled /\ sess'.no = sess.no)
           => /\ sess'.polls = sess.polls
              /\ sess'.emitted = sess.emitted
              /\ epc_seen' = epc_seen ]_vars
  /\ ((Cancelled /\ pc = "exiting") ~> (Cancelled /\ pc = "idle" /\ outcome = "returned"))

C18_Witness ==
  /\ Cancelled /\ pc = "idle" /\ outcome = "returned"
  /\ sess.polls >= 1 /\ Len(sess.emitted) >= 1 /\ sess.pollReconnects >= 1
  /\ sess.stopCalls = 1 /\ sess.stopWrites >= 1

\* a single_inventory call has just ended with a response that parsed as a tag
SingleTagRead ==
  /\ pc = "idle" /\ sc.cmd = SingleCmd /\ sc.result = "response"
  /\ parse_tag_frame(sc.response).kind = "tag"

====
